---- MODULE Spec2Model ----
(***************************************************************************)
(* Model of BOT.py: the Streamlit career-guidance chatbot.                 *)
(*                                                                         *)
(* State is st.session_state (the transcript list under "messages" and the *)
(* ChatMessageHistory objects that get_session_history keeps under the     *)
(* session ids) plus the position of main(): Idle between script runs,     *)
(* Processing while the blocking model call of chatbot_response is pending.*)
(***************************************************************************)
EXTENDS Integers, Sequences, FiniteSets, TLC

\* ---------------------------------------------------------------- bounds
MaxItems == 8          \* most turns and messages held in st.session_state

\* ---------------------------------------------------------------- inputs
ApiKeys == {"", "key"}                 \* "" stands for None / empty field
Majors == {"", "Computer Science"}
Questions == {"", "q1", "q2"}
Replies == {"r1", "r2"}
Failures == {"network", "quota", "malformed"}
SessionIds == {"default", "s1", "messages"}

VARIABLES
    session_state,   \* st.session_state: key -> stored object
    pc,              \* "Idle" | "Processing"
    env,             \* GOOGLE_API_KEY of the process environment
    inputs,          \* widget values read by the last run of main()
    outcome,         \* how the last operation ended
    shown,           \* st.error message shown by the last run ("" = none)
    escaped,         \* an exception left main() in the last run
    calls,           \* model calls made by the last run of main()
    pre,             \* st.session_state at entry of the last run or store call
    op,              \* last operation performed on the session state
    ret,             \* object get_session_history returned to the last operation
    log              \* per session id, the messages appended under it

vars == <<session_state, pc, env, inputs, outcome, shown, escaped, calls, pre,
          op, ret, log>>

\* ------------------------------------------------------------ data model
NoInput == [keyField |-> "", major |-> "", user_input |-> ""]
NoObject == [kind |-> "none", items |-> <<>>]
EmptyList == [kind |-> "list", items |-> <<>>]
ChatMessageHistory == [kind |-> "history", items |-> <<>>]

UserTurn(content) == [role |-> "user", content |-> content]
AssistantTurn(content) == [role |-> "assistant", content |-> content]
HumanMessage(content) == [type |-> "human", content |-> content]
AIMessage(content) == [type |-> "ai", content |-> content]

Put(state, key, value) ==
    [k \in DOMAIN state \cup {key} |-> IF k = key THEN value ELSE state[k]]

AppendItems(state, key, new) ==
    Put(state, key, [kind |-> state[key].kind,
                     items |-> state[key].items \o new])

\* a store that keeps every session under one key
get_session_history_shared(state, session_id) ==
    LET after == IF "default" \notin DOMAIN state
                 THEN Put(state, "default", ChatMessageHistory)
                 ELSE state
    IN [state |-> after, ref |-> "default", value |-> after["default"]]

\* lines 68-71: the state after the call, the key of the object it returns
\* (the caller holds a reference to the stored object) and that object
get_session_history(state, session_id) ==
    LET after == IF session_id \notin DOMAIN state
                 THEN Put(state, session_id, ChatMessageHistory)
                 ELSE state
    IN [state |-> after, ref |-> session_id, value |-> after[session_id]]

\* the transcript re-created on every run
InitMessagesReset(state) == Put(state, "messages", EmptyList)

\* lines 79-80
InitMessages(state) ==
    IF "messages" \notin DOMAIN state
    THEN Put(state, "messages", EmptyList)
    ELSE state

\* newest turn first: messages.insert(0, ...)
AppendTurnFirst(state, turn) ==
    Put(state, "messages", [kind |-> state["messages"].kind,
                            items |-> <<turn>> \o state["messages"].items])

\* lines 124 and 131: st.session_state.messages.append(...)
AppendTurn(state, turn) == AppendItems(state, "messages", <<turn>>)

\* a built-in fallback key instead of the interactive field
ApiKeyDefault(envKey, keyField) == IF envKey # "" THEN envKey ELSE "key"

\* lines 86-89: environment key, else the interactive field
ApiKey(envKey, keyField) == IF envKey # "" THEN envKey ELSE keyField

\* if user_input:
InputGuardQuestionOnly(user_input, major) == user_input # ""

\* line 121: if user_input and major
InputGuard(user_input, major) == user_input # "" /\ major # ""

\* except ValueError: only a malformed response is handled
CaughtValueError(exc) == exc = "malformed"

\* line 132: except Exception
Caught(exc) == exc \in Failures

\* lines 61-64 with 99-104: the history wrapper looks the session up when
\* the call starts ...
EnterHistory(state, session_id) == get_session_history(state, session_id).state

\* the reply stored ahead of the input
ExitHistorySwapped(state, ref, user_input, reply) ==
    AppendItems(state, ref, <<AIMessage(reply), HumanMessage(user_input)>>)

\* ... and, when the call returns, adds the input and the reply to the object
\* it was given (ref: the key that object is stored under)
ExitHistory(state, ref, user_input, reply) ==
    AppendItems(state, ref, <<HumanMessage(user_input), AIMessage(reply)>>)

\* views
Transcript(state) ==
    IF "messages" \in DOMAIN state /\ state["messages"].kind = "list"
    THEN state["messages"].items ELSE <<>>

History(state, session_id) ==
    IF session_id \in DOMAIN state /\ state[session_id].kind = "history"
    THEN state[session_id].items ELSE <<>>

RECURSIVE SumLen(_, _)
SumLen(state, keys) ==
    IF keys = {} THEN 0
    ELSE LET k == CHOOSE x \in keys : TRUE
         IN Len(state[k].items) + SumLen(state, keys \ {k})

\* number of turns and messages held in the session state
Size(state) == SumLen(state, DOMAIN state)

Init ==
    /\ session_state = <<>>
    /\ pc = "Idle"
    /\ env \in ApiKeys
    /\ inputs = NoInput
    /\ outcome = "none"
    /\ shown = ""
    /\ escaped = FALSE
    /\ calls = 0
    /\ pre = <<>>
    /\ op = [name |-> "none", sid |-> "default"]
    /\ ret = NoObject
    /\ log = [s \in SessionIds |-> <<>>]

\* a run of main() that returns without reaching the model call
Return(state, how, message, exc) ==
    /\ session_state' = state
    /\ pc' = "Idle"
    /\ outcome' = how
    /\ shown' = message
    /\ escaped' = exc
    /\ calls' = 0
    /\ ret' = NoObject

\* lines 74-128: one script run up to the blocking model call
MainRun(keyField, initFails, major, user_input) ==
    /\ pc = "Idle"
    /\ env # "" => keyField = ""            \* line 89 is reached only without env
    /\ inputs' = [keyField |-> keyField, major |-> major, user_input |-> user_input]
    /\ InputGuard(user_input, major) => Size(session_state) + 4 <= MaxItems
    /\ pre' = session_state
    /\ op' = [name |-> "main", sid |-> "default"]
    /\ UNCHANGED <<env, log>>
    /\ LET s1 == InitMessages(session_state)
       IN  IF ApiKey(env, keyField) = ""
           THEN Return(s1, "halted", "key_required", FALSE)          \* 90-92
           ELSE IF initFails
           THEN Return(s1, "init_failed", "init_failed", FALSE)      \* 105-107
           ELSE IF s1["messages"].kind # "list"
           THEN Return(s1, "crash", "", TRUE)                        \* 116-118
           ELSE IF ~InputGuard(user_input, major)
           THEN Return(s1, "skipped", "", FALSE)                     \* 121
           ELSE /\ session_state' =
                      EnterHistory(AppendTurn(s1, UserTurn(user_input)), "default")
                /\ ret' = get_session_history(s1, "default").value
                /\ pc' = "Processing"
                /\ outcome' = "pending"
                /\ shown' = ""
                /\ escaped' = FALSE
                /\ calls' = 1

\* lines 128-131: the model call returns reply
ModelReplies(reply) ==
    /\ pc = "Processing"
    /\ session_state' =
           AppendTurn(ExitHistory(session_state,
                                  get_session_history(session_state, "default").ref,
                                  inputs.user_input, reply),
                      AssistantTurn(reply))
    /\ log' = [log EXCEPT !["default"] =
                   @ \o <<HumanMessage(inputs.user_input), AIMessage(reply)>>]
    /\ pc' = "Idle"
    /\ outcome' = "ok"
    /\ shown' = ""
    /\ escaped' = FALSE
    /\ op' = [name |-> "main", sid |-> "default"]
    /\ UNCHANGED <<env, inputs, calls, pre, ret>>

\* the failure retried instead of reported
ModelFailsRetry(exc) ==
    /\ pc = "Processing"
    /\ pc' = "Processing"
    /\ outcome' = "error"
    /\ shown' = ""
    /\ escaped' = FALSE
    /\ op' = [name |-> "main", sid |-> "default"]
    /\ UNCHANGED <<session_state, env, inputs, calls, pre, ret, log>>

\* the error text kept in the transcript as an assistant turn
ModelFailsAppendsError(exc) ==
    /\ pc = "Processing"
    /\ session_state' = AppendTurn(session_state, AssistantTurn(exc))
    /\ pc' = "Idle"
    /\ outcome' = "error"
    /\ shown' = IF Caught(exc) THEN "generation_error" ELSE ""
    /\ escaped' = ~Caught(exc)
    /\ op' = [name |-> "main", sid |-> "default"]
    /\ UNCHANGED <<env, inputs, calls, pre, ret, log>>

\* lines 132-133: the model call raises exc
ModelFails(exc) ==
    /\ pc = "Processing"
    /\ pc' = "Idle"
    /\ outcome' = "error"
    /\ shown' = IF Caught(exc) THEN "generation_error" ELSE ""
    /\ escaped' = ~Caught(exc)
    /\ op' = [name |-> "main", sid |-> "default"]
    /\ UNCHANGED <<session_state, env, inputs, calls, pre, ret, log>>

Resolve == (\E r \in Replies : ModelReplies(r)) \/ (\E e \in Failures : ModelFails(e))

Run ==
    \E keyField \in ApiKeys, initFails \in BOOLEAN,
       major \in Majors, user_input \in Questions :
        MainRun(keyField, initFails, major, user_input)

Next == Run \/ Resolve

Spec == Init /\ [][Next]_vars

\* the blocking call of line 128 eventually returns or raises (no timeout is
\* configured, so this is an assumption on the remote service)
FairSpec == Spec /\ WF_vars(Resolve)

\* ------------------------------------------------- the history store alone
\* get_session_history(session_id) called directly between script runs
StoreGet(session_id) ==
    /\ pc = "Idle"
    /\ LET r == get_session_history(session_state, session_id)
       IN  /\ session_state' = r.state
           /\ ret' = r.value
    /\ op' = [name |-> "get", sid |-> session_id]
    /\ pre' = session_state
    /\ outcome' = "store"
    /\ shown' = ""
    /\ escaped' = FALSE
    /\ calls' = 0
    /\ UNCHANGED <<pc, env, inputs, log>>

\* chatbot_response(..., session_id) storing one exchange under session_id:
\* the wrapper reads .messages of the object it got and add_messages to it,
\* which raises AttributeError when the object is the transcript list
StoreAppend(session_id, user_input, reply) ==
    /\ pc = "Idle"
    /\ Size(session_state) + 2 <= MaxItems
    /\ LET r == get_session_history(session_state, session_id)
       IN  /\ ret' = r.value
           /\ IF r.value.kind = "history"
              THEN /\ session_state' = ExitHistory(r.state, r.ref, user_input, reply)
                   /\ log' = [log EXCEPT ![session_id] =
                                  @ \o <<HumanMessage(user_input), AIMessage(reply)>>]
                   /\ op' = [name |-> "append", sid |-> session_id]
                   /\ escaped' = FALSE
                   /\ calls' = 1
              ELSE /\ session_state' = r.state
                   /\ log' = log
                   /\ op' = [name |-> "append_failed", sid |-> session_id]
                   /\ escaped' = TRUE
                   /\ calls' = 0
    /\ pre' = session_state
    /\ outcome' = "store"
    /\ shown' = ""
    /\ UNCHANGED <<pc, env, inputs>>

Store ==
    \/ \E s \in SessionIds : StoreGet(s)
    \/ \E s \in SessionIds, q \in Questions \ {""}, r \in Replies : StoreAppend(s, q, r)

\* script runs between the store calls: a major is entered, the key comes
\* from the environment if at all
StoreRun == \E user_input \in Questions : MainRun("", FALSE, "Computer Science", user_input)

StoreNext == StoreRun \/ Resolve \/ Store

StoreSpec == Init /\ [][StoreNext]_vars

\* ------------------------------------------------------------ properties
IsPrefix(s, t) == Len(s) <= Len(t) /\ SubSeq(t, 1, Len(s)) = s

CountRole(turns, role) == Cardinality({i \in DOMAIN turns : turns[i].role = role})

CountType(msgs, type) == Cardinality({i \in DOMAIN msgs : msgs[i].type = type})

T == Transcript(session_state)
TPre == Transcript(pre)
H == History(session_state, "default")
HPre == History(pre, "default")

\* some interaction in the transcript got no reply: its user turn is followed
\* by the next user turn
HasFailedInteraction(turns) ==
    \E i \in DOMAIN turns :
        i < Len(turns) /\ turns[i].role = "user" /\ turns[i + 1].role = "user"

\* C1: when the model call raises, an error message is shown, the exception
\* stays inside main(), and the transcript and the model-side history hold as
\* many assistant turns after the interaction as before it.
C1_NoAssistantTurnOnFailure ==
    outcome = "error" =>
        /\ shown = "generation_error"
        /\ ~escaped
        /\ CountRole(T, "assistant") = CountRole(TPre, "assistant")
        /\ CountType(H, "ai") = CountType(HPre, "ai")

C1_Witness ==
    outcome = "error" /\ CountRole(T, "assistant") >= 1 /\ CountType(H, "ai") >= 1

\* C2 as stated: after a failed interaction the transcript equals the
\* transcript before the interaction.
C2_TranscriptUnchangedOnFailure == outcome = "error" => T = TPre

\* C2 amended: after a failed interaction the transcript is the transcript
\* before it followed by exactly the user turn of the failed interaction, and
\* the model-side history is the one before the interaction.
C2_UserTurnKeptOnFailure ==
    outcome = "error" =>
        /\ T = TPre \o <<UserTurn(inputs.user_input)>>
        /\ H = HPre

C2_Witness == outcome = "error" /\ Len(TPre) >= 2 /\ Len(HPre) >= 2

C4_TranscriptAppendOnly ==
    [][LET old == Transcript(session_state)
           new == Transcript(session_state')
       IN  /\ IsPrefix(old, new)
           /\ Len(new) <= Len(old) + 1
           /\ Len(new) = Len(old) + 1 =>
                  \/ pc' = "Processing" /\ new[Len(new)] = UserTurn(inputs'.user_input)
                  \/ pc = "Processing" /\ new[Len(new)].role = "assistant"]_vars

C4_Witness == Len(T) >= 5 /\ outcome = "skipped" /\ HasFailedInteraction(T)

\* C5: after a successful interaction the transcript is the transcript
\* before it followed by {user, Q} and {assistant, R}, and the model-side
\* history is the history before it followed by the messages Q and R.
C5_SuccessfulInteraction ==
    outcome = "ok" =>
        \E r \in Replies :
            /\ T = TPre \o <<UserTurn(inputs.user_input), AssistantTurn(r)>>
            /\ H = HPre \o <<HumanMessage(inputs.user_input), AIMessage(r)>>

C5_Witness ==
    /\ outcome = "ok"
    /\ pre = <<>>
    /\ T = <<UserTurn("q1"), AssistantTurn("r1")>>
    /\ H = <<HumanMessage("q1"), AIMessage("r1")>>

\* C6: a run with no key in the environment and an empty key field halts
\* with the key-required message, makes no model call and leaves transcript
\* and history as they were, whatever the major and the question.
C6_MissingCredentialHalts ==
    (op.name = "main" /\ outcome # "none" /\ env = "" /\ inputs.keyField = "") =>
        /\ outcome = "halted"
        /\ shown = "key_required"
        /\ pc = "Idle"
        /\ calls = 0
        /\ T = TPre
        /\ H = HPre

C6_Witness ==
    /\ outcome = "halted"
    /\ inputs.major # ""
    /\ inputs.user_input # ""
    /\ Len(T) >= 2

BothFields == inputs.major # "" /\ inputs.user_input # ""
AfterRun == op.name = "main" /\ outcome # "none"

\* what C7 says of a run: nothing appended and no call with an empty field,
\* one user turn (in place before the call) and one call otherwise
InputGuardEffect ==
    /\ ~BothFields =>
           /\ calls = 0
           /\ T = TPre
           /\ H = HPre
    /\ BothFields =>
           /\ calls = 1
           /\ CountRole(T, "user") = CountRole(TPre, "user") + 1
           /\ IsPrefix(TPre \o <<UserTurn(inputs.user_input)>>, T)
           /\ pc = "Processing" => T = TPre \o <<UserTurn(inputs.user_input)>> /\ H = HPre

\* C7 as stated: every run of main() behaves so.
C7_InputGuardEveryRun == AfterRun => InputGuardEffect

\* C7 amended: every run of main() that gets past the credential check and
\* the construction of the model client behaves so.
C7_InputGuard ==
    (AfterRun /\ outcome \notin {"halted", "init_failed"}) => InputGuardEffect

C7_Witness ==
    /\ pc = "Processing"
    /\ calls = 1
    /\ Len(TPre) >= 2
    /\ T = TPre \o <<UserTurn(inputs.user_input)>>

\* C8: main() is Idle or Processing; it leaves Idle only on a run with both
\* fields non-empty; Processing is always followed by Idle, on a reply and on
\* a failure alike; and a valid run after a failed interaction is processed.
C8_IdleProcessing ==
    /\ [](pc \in {"Idle", "Processing"})
    /\ [][(pc = "Idle" /\ pc' = "Processing") =>
              (inputs'.major # "" /\ inputs'.user_input # "")]_vars
    /\ [][pc = "Processing" => pc' = "Idle"]_vars
    /\ (pc = "Processing") ~> (pc = "Idle")
    /\ [][(pc = "Idle" /\ outcome = "error"
             /\ inputs'.major # "" /\ inputs'.user_input # ""
             /\ outcome' \notin {"halted", "init_failed"})
              => (pc' = "Processing" /\ calls' = 1)]_vars

C8_Witness == outcome = "ok" /\ HasFailedInteraction(T) /\ T[Len(T) - 2].role = "user"

\* C10: every assistant turn of the transcript directly follows a user turn
\* (the one of its interaction), so the transcript never starts with an
\* assistant turn, never has two of them in a row, and never holds more
\* assistant turns than user turns.
C10_AssistantFollowsUser ==
    /\ \A i \in DOMAIN T : T[i].role = "assistant" => (i > 1 /\ T[i - 1].role = "user")
    /\ CountRole(T, "assistant") <= CountRole(T, "user")
    /\ outcome = "ok" =>
           (T[Len(T)].role = "assistant" /\ T[Len(T) - 1] = UserTurn(inputs.user_input))

C10_Witness ==
    /\ Len(T) >= 3
    /\ T[Len(T)].role = "assistant"
    /\ HasFailedInteraction(T)

\* C9 as stated: get returns the object stored for the id, or creates, stores
\* and returns an empty history; the object returned is always a chat-history
\* store.
C9_GetOrCreate ==
    [][op'.name = "get" =>
          /\ ret'.kind = "history"
          /\ IF op'.sid \in DOMAIN session_state
             THEN ret' = session_state[op'.sid] /\ session_state' = session_state
             ELSE ret' = ChatMessageHistory
                  /\ session_state' = Put(session_state, op'.sid, ChatMessageHistory)]_vars

====
